---- MODULE Spec2Model ----
(***************************************************************************)
(* Model of PivotNeighbHorderHashPivInvIndex                               *)
(* (similarity_search/src/method/pivot_neighb_horder_hashpiv_invindx.cc):  *)
(* parameter handling of CreateIndex and SetQueryTimeParams, the parallel  *)
(* build of the posting lists, and the candidate generation of GenSearch.  *)
(***************************************************************************)
EXTENDS Integers, Sequences, FiniteSets, TLC

(***************************************************************************)
(* Bounds of the model.                                                    *)
(***************************************************************************)
MaxPivot == 3
NumObj == 3
MaxQueries == 3
MaxThreads == 2
MaxSkipVal == 2
MaxCombQty == 4
MaxMinTimes == 3

\* a parameter that the caller did not pass
Absent == 0 - 1

\* const size_t MAX_TMP_DOC_QTY = 4096 * 32, scaled down so that a worker
\* reaches the flush threshold within NumObj objects
MAX_TMP_DOC_QTY == 2

\* size_t arithmetic is modulo 2^64 in the program; the model keeps the
\* wrap-around with a word of 15 bits so that products stay inside TLC's integers
SizeMod == 32768

Abs(x) == IF x < 0 THEN 0 - x ELSE x

RECURSIVE InsertSorted(_, _)
InsertSorted(x, s) ==
  IF s = <<>> THEN <<x>>
  ELSE IF x <= Head(s) THEN <<x>> \o s
  ELSE <<Head(s)>> \o InsertSorted(x, Tail(s))

\* boost::sort::spreadsort::integer_sort: ascending order, duplicates kept
RECURSIVE integer_sort(_)
integer_sort(s) ==
  IF s = <<>> THEN <<>> ELSE InsertSorted(Head(s), integer_sort(Tail(s)))

Range(s) == {s[i] : i \in 1..Len(s)}

(***************************************************************************)
(* Data, pivots and permutations.                                          *)
(***************************************************************************)
\* objects and queries are points on a line, the pivots are at 0, 6, 12, ...
PivotPos(i) == 6 * i
DataSets == {SubSeq(<<1, 9, 16, 4, 11>>, 1, NumObj),
             SubSeq(<<4, 4, 16, 9, 1>>, 1, NumObj)}
QueryPos == Range(SubSeq(<<1, 4, 16, 9, 11>>, 1, MaxQueries))

\* pivot_index_->ComputePivotDistances{Index,Query}Time: vDst[i] = dist(x, pivot i)
ComputePivotDistances(pos, N) == [i \in 0..(N - 1) |-> Abs(pos - PivotPos(i))]

\* std::pair<dist, pivot id> comparison used by sort(dists.begin(), dists.end())
DistIntLess(vDst, i, j) == vDst[i] < vDst[j] \/ (vDst[i] = vDst[j] /\ i < j)

\* GetPermutationPPIndexEfficiently(p, vDst): pivot ids by ascending (dist, id)
GetPermutationPPIndexEfficiently(vDst, N) ==
  [r \in 0..(N - 1) |->
     CHOOSE p \in 0..(N - 1) :
       Cardinality({q \in 0..(N - 1) : DistIntLess(vDst, q, p)}) = r]

Permutation(pos, N) == GetPermutationPPIndexEfficiently(ComputePivotDistances(pos, N), N)

(***************************************************************************)
(* Combination keys.                                                       *)
(***************************************************************************)
Max2(a, b) == IF a > b THEN a ELSE b
Min2(a, b) == IF a < b THEN a ELSE b

\* a pair index without the halving of the triangular number
PostingListIndexNoHalving(a, b) == Max2(a, b) * (Max2(a, b) - 1) + Min2(a, b)

\* PostingListIndex(a, b): index of the unordered pair in a triangular array
PostingListIndex(a, b) == (Max2(a, b) * (Max2(a, b) - 1)) \div 2 + Min2(a, b)

\* PostingListIndex(a, b, c): index of the unordered triple in a tetrahedral array
PostingListIndex3(a, b, c) ==
  LET hi == Max2(a, Max2(b, c))
      lo == Min2(a, Min2(b, c))
      mid == a + b + c - hi - lo
  IN (hi * (hi - 1) * (hi - 2)) \div 6 + (mid * (mid - 1)) \div 2 + lo

\* getPostQtys(pivotCombQty, skipVal) for N pivots
getPostQtys(N, combQty, skipVal) ==
  IF combQty = 1 THEN (N + skipVal - 1) \div skipVal
  ELSE IF combQty = 2 THEN ((N * (N - 1)) \div 2 + skipVal - 1) \div skipVal
  ELSE IF combQty = 3 THEN ((N * (N - 1) * (N - 2)) \div 6 + skipVal - 1) \div skipVal
  ELSE 0

\* the skip filter: emit index / skip_val_ iff index % skip_val_ == 0
SkipFilter(index, skipVal) ==
  IF index % skipVal = 0 THEN <<index \div skipVal>> ELSE <<>>

RECURSIVE genComb1(_, _, _, _)
genComb1(perm, P, skipVal, i) ==
  IF i >= P THEN <<>>
  ELSE SkipFilter(perm[i], skipVal) \o genComb1(perm, P, skipVal, i + 1)

RECURSIVE genComb2(_, _, _, _, _)
genComb2(perm, P, skipVal, j, k) ==
  IF j >= P THEN <<>>
  ELSE IF k >= j THEN genComb2(perm, P, skipVal, j + 1, 0)
  ELSE SkipFilter(PostingListIndex(perm[j], perm[k]), skipVal)
         \o genComb2(perm, P, skipVal, j, k + 1)

RECURSIVE genComb3(_, _, _, _, _, _)
genComb3(perm, P, skipVal, j, k, l) ==
  IF j >= P THEN <<>>
  ELSE IF k >= j THEN genComb3(perm, P, skipVal, j + 1, 1, 0)
  ELSE IF l >= k THEN genComb3(perm, P, skipVal, j, k + 1, 0)
  ELSE SkipFilter(PostingListIndex3(perm[j], perm[k], perm[l]), skipVal)
         \o genComb3(perm, P, skipVal, j, k, l + 1)

\* genPivotCombIds(ids, perm, permPrefixSize): the keys written, in order
genPivotCombIds(perm, P, combQty, skipVal) ==
  IF combQty = 1 THEN genComb1(perm, P, skipVal, 0)
  ELSE IF combQty = 2 THEN genComb2(perm, P, skipVal, 1, 0)
  ELSE genComb3(perm, P, skipVal, 2, 1, 0)

(***************************************************************************)
(* State of one index object.                                              *)
(***************************************************************************)
VARIABLES
  state,               \* "new", "setup", "indexing", "sorting", "built",
                       \* "failed", "crashed"
  data,                \* this->data_: the position of object id i is data[i + 1]
  PrintProgress_,      \* the constructor's PrintProgress
  progress_bar_,       \* the ticks of the progress display
  num_pivot_, num_prefix_, index_thread_qty_, skip_val_, pivot_comb_qty_,
  maxPostQty_,
  skip_checking_, min_times_, num_prefix_search_, inv_proc_alg_,
  posting_lists_,      \* bucket id -> sequence of object ids
  tmp_posting_lists_,  \* thread id -> bucket id -> sequence of object ids
  tmp_post_doc_qty_,   \* thread id -> objects staged since the last flush
  current,             \* ParallelFor: the next item to hand out
  wpc,                 \* ParallelFor: where each worker thread is
  witem,               \* ParallelFor: the item a worker is processing
  sortLen,             \* the size of the list when a worker's integer_sort began
  indexCall,           \* the IndexParams of the CreateIndex call
  indexErr,            \* the statement of CreateIndex that threw, "ok" if none
  queryCall,           \* the QueryTimeParams of the last SetQueryTimeParams call
  queryErr,            \* how the last SetQueryTimeParams call ended
  search,              \* what the last GenSearch call did
  proc_query_qty_,     \* statistics: the searches counted
  post_qty_,           \* statistics: the postings counted
  stat_mutex_,         \* the query thread holding stat_mutex_, NoOwner if none
  loans,               \* pool -> vectors loaned and not yet released
  qpc,                 \* where each query thread is in GenSearch
  qlocal,              \* the locals of each query thread's GenSearch
  done                 \* the GenSearch calls that returned, and that were aborted

buildParams == <<num_pivot_, num_prefix_, index_thread_qty_, skip_val_,
                 pivot_comb_qty_, maxPostQty_>>
queryParams == <<skip_checking_, min_times_, num_prefix_search_, inv_proc_alg_>>
lists == <<posting_lists_, tmp_posting_lists_, tmp_post_doc_qty_>>
loop == <<current, wpc, witem, sortLen>>
calls == <<indexCall, indexErr, queryCall, queryErr, search>>
stats == <<proc_query_qty_, post_qty_, stat_mutex_>>
searchSide == <<stats, loans, qpc, qlocal, done>>
progress == <<PrintProgress_, progress_bar_>>
vars == <<state, data, progress, buildParams, queryParams, lists, loop, calls,
          searchSide>>

Workers == 0..(MaxThreads - 1)
DataQty == Len(data)

\* the threads that call Search on the index
QueryThreads == 0..(MaxThreads - 1)
NoOwner == Absent
NoLocals == [post_qty |-> 0, tmpRes |-> FALSE, proc_read |-> 0, post_read |-> 0]

\* no search has run: the counters are zero (constructor), the pools are
\* whole, no thread is inside GenSearch
NoSearchYet ==
  /\ proc_query_qty_ = 0
  /\ post_qty_ = 0
  /\ stat_mutex_ = NoOwner
  /\ loans = [cand |-> 0, tmpRes |-> 0, combId |-> 0]
  /\ qpc = [t \in QueryThreads |-> "idle"]
  /\ qlocal = [t \in QueryThreads |-> NoLocals]
  /\ done = [returned |-> 0, aborted |-> 0, postings |-> 0]

(***************************************************************************)
(* Parameters (AnyParamManager).                                           *)
(***************************************************************************)
hasParam(v) == v # Absent
GetParamOptional(v, default) == IF hasParam(v) THEN v ELSE default

\* the names of the inverted file processing algorithms; "" is no invProcAlg given
kScan == "scan"
kStoreSort == "storeSort"
kMerge == "merge"
kPriorQueue == "priorQueue"
InvProcAlgs == {kScan, kStoreSort, kMerge, kPriorQueue}

IndexParamSet(maxThreads) ==
  [numPivot : 3..MaxPivot,
   numPivotIndex : (0..(MaxPivot + 1)) \cup {Absent},
   numPrefix : (0..(MaxPivot + 1)) \cup {Absent},
   indexThreadQty : 1..maxThreads,
   skipVal : 1..MaxSkipVal,
   pivotCombQty : 0..MaxCombQty,
   unknownKey : BOOLEAN]

NoIndexCall ==
  [numPivot |-> Absent, numPivotIndex |-> Absent, numPrefix |-> Absent,
   indexThreadQty |-> Absent, skipVal |-> Absent, pivotCombQty |-> Absent,
   unknownKey |-> FALSE]

MinTimesVals == {1, MaxMinTimes}

QueryParamProduct ==
  [skipChecking : {Absent},
   invProcAlg : {"", kScan, kMerge, kPriorQueue},
   minTimes : MinTimesVals \cup {Absent},
   numPivotSearch : MinTimesVals \cup {Absent},
   numPrefixSearch : (0..(MaxPivot + 1)) \cup {Absent},
   unknownKey : {FALSE}]

\* the calls of the model: every combination with at most one of the aliases
\* minTimes and numPivotSearch, and the calls that give both and nothing else
QueryParamSet ==
  {p \in QueryParamProduct :
     \/ p.minTimes = Absent
     \/ p.numPivotSearch = Absent
     \/ (p.invProcAlg = "" /\ p.numPrefixSearch = Absent)}

\* AnyParams(): no parameter given (ResetQueryTimeParams)
EmptyQueryParams ==
  [skipChecking |-> Absent, invProcAlg |-> "", minTimes |-> Absent,
   numPivotSearch |-> Absent, numPrefixSearch |-> Absent, unknownKey |-> FALSE]

(***************************************************************************)
(* SetQueryTimeParams.                                                     *)
(***************************************************************************)
\* pmgr.hasParam("minTimes") && pmgr.hasParam("numPivotSearch")
\* a weaker test, which lets two equal synonyms through
BothSearchAliasesDiffer(minTimes, numPivotSearch) ==
  hasParam(minTimes) /\ hasParam(numPivotSearch) /\ minTimes # numPivotSearch
BothSearchAliases(minTimes, numPivotSearch) ==
  hasParam(minTimes) /\ hasParam(numPivotSearch)

\* GetParamOptional("minTimes", min_times_, 2);
\* GetParamOptional("numPivotSearch", min_times_, 2);
MinTimesParam(minTimes, numPivotSearch) ==
  LET afterMinTimes == GetParamOptional(minTimes, 2)
  IN GetParamOptional(numPivotSearch, 2)

\* num_prefix_search_ > num_pivot_
\* a stricter bound, which refuses num_prefix_search_ = num_pivot_
PrefixSearchAtLeast(numPrefixSearch, numPivot) == numPrefixSearch >= numPivot
PrefixSearchTooLarge(numPrefixSearch, numPivot) == numPrefixSearch > numPivot

\* The fields after SetQueryTimeParams(p), and how the call ended. A field
\* assigned before the statement that throws keeps its new value.
SetQueryTimeParamsResult(p, numPrefix, numPivot) ==
  LET skipChecking == GetParamOptional(p.skipChecking, 0) = 1
      algName == IF p.invProcAlg = "" THEN kStoreSort ELSE p.invProcAlg
      minTimes == MinTimesParam(p.minTimes, p.numPivotSearch)
      numPrefixSearch == GetParamOptional(p.numPrefixSearch, numPrefix)
      err == IF BothSearchAliases(p.minTimes, p.numPivotSearch) THEN "synonyms"
             ELSE IF PrefixSearchTooLarge(numPrefixSearch, numPivot)
               THEN "numPrefixSearch"
             ELSE IF algName \notin InvProcAlgs THEN "invProcAlg"
             ELSE IF p.unknownKey THEN "unused"
             ELSE "ok"
  IN [err |-> err,
      skip_checking |-> skipChecking,
      min_times |-> IF err = "synonyms" THEN min_times_ ELSE minTimes,
      num_prefix_search |-> IF err = "synonyms" THEN num_prefix_search_
                            ELSE numPrefixSearch,
      inv_proc_alg |-> IF err \in {"synonyms", "numPrefixSearch", "invProcAlg"}
                       THEN inv_proc_alg_ ELSE algName]

(***************************************************************************)
(* CreateIndex: the parameters (lines 67-102).                            *)
(***************************************************************************)
\* pmgr.hasParam("numPivotIndex") && pmgr.hasParam("numPrefix")
BothIndexAliases(numPivotIndex, numPrefix) ==
  hasParam(numPivotIndex) /\ hasParam(numPrefix)

\* GetParamOptional("numPivotIndex", num_prefix_, 32);
\* GetParamOptional("numPrefix", num_prefix_, num_prefix_);
NumPrefixParam(numPivotIndex, numPrefix) ==
  LET afterNumPivotIndex == GetParamOptional(numPivotIndex, 32)
  IN GetParamOptional(numPrefix, afterNumPivotIndex)

\* num_prefix_ > num_pivot_
PrefixTooLarge(numPrefix, numPivot) == numPrefix > numPivot

\* CHECK_MSG(pivot_comb_qty_ && pivot_comb_qty_ <= 3, ...)
CombQtyLegal(combQty) == combQty # 0 /\ combQty <= 3

\* CHECK_MSG(pivot_comb_qty_ == 2, "Only two pivot combinations are currently supported")
\* a build that takes every legal number of pivots in a combination
CombQtyUpToThree(combQty) == combQty \in 1..3
CombQtySupported(combQty) == combQty = 2

\* the statement of CreateIndex that throws for IndexParams p, "ok" if none does
CreateIndexError(p) ==
  LET numPivot == GetParamOptional(p.numPivot, 512)
      numPrefix == NumPrefixParam(p.numPivotIndex, p.numPrefix)
      combQty == GetParamOptional(p.pivotCombQty, 2)
  IN IF BothIndexAliases(p.numPivotIndex, p.numPrefix) THEN "synonyms"
     ELSE IF PrefixTooLarge(numPrefix, numPivot) THEN "numPrefix"
     ELSE IF ~CombQtyLegal(combQty) THEN "pivotCombQty"
     ELSE IF p.unknownKey THEN "unused"
     ELSE IF ~CombQtySupported(combQty) THEN "onlyPairs"
     ELSE "ok"

EmptyLists(qty) == [b \in 0..(qty - 1) |-> <<>>]

CreateIndex(p) ==
  LET err == CreateIndexError(p)
      numPivot == GetParamOptional(p.numPivot, 512)
      numPrefix == NumPrefixParam(p.numPivotIndex, p.numPrefix)
      threadQty == p.indexThreadQty
      skipVal == GetParamOptional(p.skipVal, 1)
      combQty == GetParamOptional(p.pivotCombQty, 2)
      postQty == getPostQtys(numPivot, combQty, skipVal)
      \* this->ResetQueryTimeParams()
      reset == SetQueryTimeParamsResult(EmptyQueryParams, numPrefix, numPivot)
      past73 == err # "synonyms"
      past88 == err \notin {"synonyms", "numPrefix"}
      past98 == err \in {"onlyPairs", "ok"}
  IN /\ indexCall' = p
     /\ indexErr' = err
     /\ num_pivot_' = numPivot
     /\ num_prefix_' = IF past73 THEN numPrefix ELSE num_prefix_
     /\ index_thread_qty_' = IF past73 THEN threadQty ELSE index_thread_qty_
     /\ skip_val_' = IF past88 THEN skipVal ELSE skip_val_
     /\ pivot_comb_qty_' = IF past88 THEN combQty ELSE pivot_comb_qty_
     /\ skip_checking_' = IF past98 THEN reset.skip_checking ELSE skip_checking_
     /\ min_times_' = IF past98 THEN reset.min_times ELSE min_times_
     /\ num_prefix_search_' = IF past98 THEN reset.num_prefix_search
                              ELSE num_prefix_search_
     /\ inv_proc_alg_' = IF past98 THEN reset.inv_proc_alg ELSE inv_proc_alg_
     /\ maxPostQty_' = IF past98 THEN postQty ELSE maxPostQty_
     /\ state' = IF err = "ok" THEN "setup" ELSE "failed"
     /\ UNCHANGED <<data, progress, lists, loop, queryCall, queryErr, search, searchSide>>

\* CreateIndex, lines 104-161: the pivots, the pools, the empty shared and
\* per-thread lists; the first ParallelFor starts its threads. IndexParams
\* is not used any more.
StartIndexing ==
  /\ state = "setup"
  /\ state' = "indexing"
  /\ posting_lists_' = EmptyLists(maxPostQty_)
  /\ tmp_posting_lists_' =
       [t \in 0..(index_thread_qty_ - 1) |-> EmptyLists(maxPostQty_)]
  /\ tmp_post_doc_qty_' = [t \in 0..(index_thread_qty_ - 1) |-> 0]
  /\ current' = 0
  /\ wpc' = [t \in Workers |-> IF t < index_thread_qty_ THEN "take" ELSE "off"]
  /\ indexCall' = NoIndexCall
  /\ UNCHANGED <<data, progress, buildParams, queryParams, witem, sortLen, indexErr,
                 queryCall, queryErr, search, searchSide>>

(***************************************************************************)
(* ParallelFor(start, end, numThreads, fn): every worker thread takes the  *)
(* next item from a shared counter until the items run out, then the       *)
(* threads are joined. One thread gives the sequential loop.               *)
(***************************************************************************)
AllDone == \A t \in Workers : wpc[t] \in {"done", "off"}

RECURSIVE PushBack(_, _, _)
\* postList[cid].push_back(id) for every key cid
PushBack(postList, keys, id) ==
  IF keys = <<>> THEN postList
  ELSE PushBack([postList EXCEPT ![Head(keys)] = Append(@, id)], Tail(keys), id)

\* a flush that also waits for the progress display to be on
FlushWithProgress(qty) == qty >= MAX_TMP_DOC_QTY /\ PrintProgress_
\* the flush threshold test of the per-object body
FlushIsDue(qty) == qty >= MAX_TMP_DOC_QTY

\* if (id % 1000 && PrintProgress_): the progress display is ticked
ProgressTick(id, printProgress) == id % 1000 # 0 /\ printProgress

\* body of the first ParallelFor (lines 161-194) for the next object id
\* (combIds is loaned from combId_pool_ and released at the end of the body)
\* The tick of the progress display (lines 189-193), which in the code follows
\* the flush, touches progress_bar_ only and is taken in the same step.
IndexObject(t) ==
  /\ state = "indexing"
  /\ wpc[t] = "take"
  /\ current < DataQty
  /\ LET id == current
         perm == Permutation(data[id + 1], num_pivot_)
         combIds == genPivotCombIds(perm, num_prefix_, pivot_comb_qty_, skip_val_)
     IN IF \E i \in 1..Len(combIds) : ~(combIds[i] < maxPostQty_)
        THEN \* CHECK_MSG(cid < maxPostQty_, ...) throws; combIds, loaned from
             \* combId_pool_ at line 169, is not released
             /\ state' = "failed"
             /\ loans' = [loans EXCEPT !.combId = @ + 1]
             /\ UNCHANGED <<lists, wpc, progress_bar_>>
        ELSE /\ tmp_posting_lists_' =
                  [tmp_posting_lists_ EXCEPT ![t] = PushBack(@, combIds, id)]
             /\ tmp_post_doc_qty_' = [tmp_post_doc_qty_ EXCEPT ![t] = @ + 1]
             /\ wpc' = [wpc EXCEPT ![t] =
                          IF FlushIsDue(tmp_post_doc_qty_[t] + 1)
                          THEN "flush1" ELSE "take"]
             /\ progress_bar_' = IF ProgressTick(id, PrintProgress_)
                                 THEN progress_bar_ + 1 ELSE progress_bar_
             /\ UNCHANGED <<state, posting_lists_, loans>>
  /\ current' = current + 1
  /\ UNCHANGED <<data, PrintProgress_, buildParams, queryParams, witem, sortLen, calls, stats,
                 qpc, qlocal, done>>

\* a worker finds no item left
WorkerDone(t) ==
  /\ state \in {"indexing", "sorting"}
  /\ wpc[t] = "take"
  /\ current >= (IF state = "indexing" THEN DataQty ELSE num_pivot_)
  /\ wpc' = [wpc EXCEPT ![t] = "done"]
  /\ UNCHANGED <<state, data, progress, buildParams, queryParams, lists, current, witem,
                 sortLen, calls,
                 searchSide>>

NonEmptyBuckets(t) ==
  {b \in 0..(maxPostQty_ - 1) : tmp_posting_lists_[t][b] # <<>>}

\* where a worker goes on when flushTmpPost returns
AfterFlush(pc) == IF pc = "flush1" THEN "take" ELSE "sort"

\* flushTmpPost(threadId), the next non-empty bucket: under the bucket's mutex
\* the partial list is appended to the shared list and cleared. After the last
\* one, tmp_post_doc_qty_[threadId] = 0 (a step on the thread's own data).
FlushBucket(t) ==
  /\ wpc[t] \in {"flush1", "flush2"}
  /\ NonEmptyBuckets(t) # {}
  /\ LET b == CHOOSE x \in NonEmptyBuckets(t) : \A y \in NonEmptyBuckets(t) : x <= y
         last == NonEmptyBuckets(t) = {b}
     IN /\ posting_lists_' =
             [posting_lists_ EXCEPT ![b] = @ \o tmp_posting_lists_[t][b]]
        /\ tmp_posting_lists_' = [tmp_posting_lists_ EXCEPT ![t][b] = <<>>]
        /\ tmp_post_doc_qty_' =
             IF last THEN [tmp_post_doc_qty_ EXCEPT ![t] = 0] ELSE tmp_post_doc_qty_
        /\ wpc' = IF last THEN [wpc EXCEPT ![t] = AfterFlush(wpc[t])] ELSE wpc
  /\ UNCHANGED <<state, data, progress, buildParams, queryParams, current, witem, sortLen,
                 calls,
                 searchSide>>

\* flushTmpPost(threadId) when every partial list of the thread is empty
FlushNothing(t) ==
  /\ wpc[t] \in {"flush1", "flush2"}
  /\ NonEmptyBuckets(t) = {}
  /\ tmp_post_doc_qty_' = [tmp_post_doc_qty_ EXCEPT ![t] = 0]
  /\ wpc' = [wpc EXCEPT ![t] = AfterFlush(wpc[t])]
  /\ UNCHANGED <<state, data, progress, buildParams, queryParams, posting_lists_,
                 tmp_posting_lists_, current, witem, sortLen, calls,
                 searchSide>>

\* the first ParallelFor has joined its threads; the second one starts
StartSorting ==
  /\ state = "indexing"
  /\ AllDone
  /\ state' = "sorting"
  /\ current' = 0
  /\ wpc' = [t \in Workers |-> IF wpc[t] = "off" THEN "off" ELSE "take"]
  /\ UNCHANGED <<data, progress, buildParams, queryParams, lists, witem, sortLen, calls,
                 searchSide>>

\* body of the second ParallelFor (lines 197-201): take pivId, flushTmpPost
TakePivot(t) ==
  /\ state = "sorting"
  /\ wpc[t] = "take"
  /\ current < num_pivot_
  /\ witem' = [witem EXCEPT ![t] = current]
  /\ current' = current + 1
  /\ wpc' = [wpc EXCEPT ![t] = "flush2"]
  /\ UNCHANGED <<state, data, progress, buildParams, queryParams, lists, sortLen, calls,
                 searchSide>>

\* integer_sort(oneList.begin(), oneList.end()) starts on posting_lists_[pivId]
SortBegin(t) ==
  /\ wpc[t] = "sort"
  /\ witem[t] < maxPostQty_
  /\ sortLen' = [sortLen EXCEPT ![t] = Len(posting_lists_[witem[t]])]
  /\ wpc' = [wpc EXCEPT ![t] = "sorting"]
  /\ UNCHANGED <<state, data, progress, buildParams, queryParams, lists, current, witem,
                 calls,
                 searchSide>>

\* integer_sort ends. No mutex is held: if another worker's flush has appended
\* to the list meanwhile the two accesses race, and the sort has ordered the
\* elements it started with, or has worked on a buffer the append has left
\* behind, or the program has crashed.
SortEnd(t) ==
  /\ wpc[t] = "sorting"
  /\ LET b == witem[t]
         pl == posting_lists_[b]
     IN IF Len(pl) = sortLen[t]
        THEN /\ posting_lists_' = [posting_lists_ EXCEPT ![b] = integer_sort(pl)]
             /\ UNCHANGED state
        ELSE \/ /\ posting_lists_' =
                     [posting_lists_ EXCEPT ![b] =
                        integer_sort(SubSeq(pl, 1, sortLen[t]))
                          \o SubSeq(pl, sortLen[t] + 1, Len(pl))]
                /\ UNCHANGED state
             \/ UNCHANGED <<posting_lists_, state>>
             \/ /\ state' = "crashed"
                /\ UNCHANGED posting_lists_
  /\ wpc' = [wpc EXCEPT ![t] = "take"]
  /\ sortLen' = [sortLen EXCEPT ![t] = 0]
  /\ UNCHANGED <<data, progress, buildParams, queryParams, tmp_posting_lists_,
                 tmp_post_doc_qty_, current, witem, calls,
                 searchSide>>

\* *posting_lists_[pivId] with pivId >= posting_lists_.size(): the read is
\* outside the vector; the program crashes or the sort touches nothing
SortOutOfRange(t) ==
  /\ wpc[t] = "sort"
  /\ ~(witem[t] < maxPostQty_)
  /\ \/ state' = "crashed"
     \/ UNCHANGED state
  /\ wpc' = [wpc EXCEPT ![t] = "take"]
  /\ UNCHANGED <<data, progress, buildParams, queryParams, lists, current, witem, sortLen,
                 calls,
                 searchSide>>

\* the second ParallelFor has joined its threads; CreateIndex returns
FinishBuild ==
  /\ state = "sorting"
  /\ AllDone
  /\ state' = "built"
  /\ wpc' = [t \in Workers |-> "off"]
  /\ UNCHANGED <<data, progress, buildParams, queryParams, lists, current, witem, sortLen,
                 calls,
                 searchSide>>

(***************************************************************************)
(* GenSearch: the threshold and the four inverted file algorithms.         *)
(***************************************************************************)
\* a value converted to size_t
SizeT(x) == x % SizeMod

\* size_t thresh = min_times_, scaled for pairs and triples (SCALE_MIN_TIMES)
Thresh(combQty, minTimes, numPrefix) ==
  IF combQty = 3
  THEN SizeT(SizeT(minTimes * SizeT(numPrefix - 1)) * SizeT(numPrefix - 2)) \div 6
  ELSE IF combQty = 2
  THEN SizeT(minTimes * SizeT(numPrefix - 1)) \div 2
  ELSE minTimes

\* the comparison of an accumulated count with the threshold
Enough(count, thresh) == count >= thresh

RECURSIVE AddPostings(_, _, _)
\* for (IdType p : post) counter[p] += skip_val_
AddPostings(counter, post, skipVal) ==
  IF post = <<>> THEN counter
  ELSE AddPostings([counter EXCEPT ![Head(post)] = @ + skipVal], Tail(post), skipVal)

RECURSIVE ScanCounter(_, _, _, _)
ScanCounter(counter, combIds, postLists, skipVal) ==
  IF combIds = <<>> THEN counter
  ELSE ScanCounter(AddPostings(counter, postLists[Head(combIds)], skipVal),
                   Tail(combIds), postLists, skipVal)

\* kScan: a counter per object id, then every id whose counter reaches thresh
ScanCands(combIds, postLists, skipVal, thresh, dataQty) ==
  LET counter == ScanCounter([i \in 0..(dataQty - 1) |-> 0], combIds, postLists,
                             skipVal)
  IN {i \in 0..(dataQty - 1) : Enough(counter[i], thresh)}

RECURSIVE CopyPostings(_, _)
\* kStoreSort: the posting lists of the query keys copied one after another
CopyPostings(combIds, postLists) ==
  IF combIds = <<>> THEN <<>>
  ELSE postLists[Head(combIds)] \o CopyPostings(Tail(combIds), postLists)

RECURSIVE RunEnd(_, _)
\* for (; next < tmpResSize && tmpRes[next] == prevId; ++next)
RunEnd(tmpRes, next) ==
  IF next <= Len(tmpRes) /\ tmpRes[next] = tmpRes[next - 1]
  THEN RunEnd(tmpRes, next + 1) ELSE next

RECURSIVE ScanSorted(_, _, _, _)
ScanSorted(tmpRes, start, skipVal, thresh) ==
  IF start > Len(tmpRes) THEN {}
  ELSE LET next == RunEnd(tmpRes, start + 1)
       IN (IF Enough(skipVal * (next - start), thresh) THEN {tmpRes[start]} ELSE {})
            \cup ScanSorted(tmpRes, next, skipVal, thresh)

StoreSortCands(combIds, postLists, skipVal, thresh) ==
  ScanSorted(integer_sort(CopyPostings(combIds, postLists)), 1, skipVal, thresh)

RECURSIVE postListUnion(_, _, _)
\* postListUnion(lst1, lst2, res, skipVal): the sorted (id, qty) list lst1
\* merged with the posting list lst2; qty grows by skipVal where the ids match
postListUnion(lst1, lst2, skipVal) ==
  IF lst1 = <<>> /\ lst2 = <<>> THEN <<>>
  ELSE IF lst2 = <<>> THEN lst1
  ELSE IF lst1 = <<>>
    THEN <<[id |-> Head(lst2), qty |-> skipVal]>>
           \o postListUnion(lst1, Tail(lst2), skipVal)
  ELSE IF Head(lst1).id < Head(lst2)
    THEN <<Head(lst1)>> \o postListUnion(Tail(lst1), lst2, skipVal)
  ELSE IF Head(lst1).id > Head(lst2)
    THEN <<[id |-> Head(lst2), qty |-> skipVal]>>
           \o postListUnion(lst1, Tail(lst2), skipVal)
  ELSE <<[id |-> Head(lst1).id, qty |-> Head(lst1).qty + skipVal]>>
         \o postListUnion(Tail(lst1), Tail(lst2), skipVal)

RECURSIVE MergeLoop(_, _, _, _, _)
\* the loop over the query keys: tmpRes[1 - prevRes] receives the union of
\* tmpRes[prevRes] and the posting list, then prevRes = 1 - prevRes
MergeLoop(tmpRes, prevRes, combIds, postLists, skipVal) ==
  IF combIds = <<>> THEN [tmpRes |-> tmpRes, prevRes |-> prevRes]
  ELSE MergeLoop(
         [tmpRes EXCEPT ![1 - prevRes] =
            postListUnion(tmpRes[prevRes], postLists[Head(combIds)], skipVal)],
         1 - prevRes, Tail(combIds), postLists, skipVal)

\* the list the candidates are read from after the loop
MergeResultList(m) == m.tmpRes[1 - m.prevRes]

\* kMerge
MergeCands(combIds, postLists, skipVal, thresh) ==
  LET m == MergeLoop([i \in 0..1 |-> <<>>], 0, combIds, postLists, skipVal)
      res == MergeResultList(m)
  IN {res[i].id : i \in {j \in 1..Len(res) : Enough(res[j].qty, thresh)}}

\* the query states created for the non-empty posting lists: post_pos_ = 0
InitQueryStates(combIds, postLists) ==
  LET live == {kk \in 1..Len(combIds) : postLists[combIds[kk]] # <<>>}
  IN [kk \in live |-> 1]

\* the entry on top of postListQueue: keys are -doc_id, the top has the
\* smallest doc_id
TopOfQueue(pos, combIds, postLists) ==
  CHOOSE kk \in DOMAIN pos :
    \A other \in DOMAIN pos :
      postLists[combIds[kk]][pos[kk]] <= postLists[combIds[other]][pos[other]]

Restrict(f, S) == [x \in S |-> f[x]]

\* a cursor that stays on the last posting of its list
AdvanceWithoutPop(pos, kk, pl) ==
  IF pos[kk] + 1 <= Len(pl) THEN [pos EXCEPT ![kk] = @ + 1] ELSE pos
\* queryState.post_pos_++; if (post_pos_ < pl.size()) replace_top_key(...) else
\* postListQueue.pop(): the cursor kk moves one posting on, or leaves the heap
AdvanceCursor(pos, kk, pl) ==
  IF pos[kk] + 1 <= Len(pl)
  THEN [pos EXCEPT ![kk] = @ + 1]
  ELSE Restrict(pos, DOMAIN pos \ {kk})

RECURSIVE PriorQueueInner(_, _, _, _, _, _)
\* the inner while: every entry whose key is minDocId is advanced
PriorQueueInner(pos, accum, minDocId, combIds, postLists, skipVal) ==
  IF DOMAIN pos = {} THEN [pos |-> pos, accum |-> accum]
  ELSE LET kk == TopOfQueue(pos, combIds, postLists)
           pl == postLists[combIds[kk]]
       IN IF pl[pos[kk]] # minDocId THEN [pos |-> pos, accum |-> accum]
          ELSE PriorQueueInner(AdvanceCursor(pos, kk, pl),
                               accum + skipVal, minDocId, combIds, postLists, skipVal)

RECURSIVE PriorQueueLoop(_, _, _, _, _)
\* the outer while: one document at a time; accum = 0 after each document
PriorQueueLoop(pos, combIds, postLists, skipVal, thresh) ==
  IF DOMAIN pos = {} THEN {}
  ELSE LET kk == TopOfQueue(pos, combIds, postLists)
           minDocId == postLists[combIds[kk]][pos[kk]]
           r == PriorQueueInner(pos, 0, minDocId, combIds, postLists, skipVal)
       IN (IF Enough(r.accum, thresh) THEN {minDocId} ELSE {})
            \cup PriorQueueLoop(r.pos, combIds, postLists, skipVal, thresh)

\* kPriorQueue
PriorQueueCands(combIds, postLists, skipVal, thresh) ==
  PriorQueueLoop(InitQueryStates(combIds, postLists), combIds, postLists, skipVal,
                 thresh)

\* the candidates of one algorithm
Cands(alg, combIds, postLists, skipVal, thresh, dataQty) ==
  IF alg = kScan THEN ScanCands(combIds, postLists, skipVal, thresh, dataQty)
  ELSE IF alg = kStoreSort THEN StoreSortCands(combIds, postLists, skipVal, thresh)
  ELSE IF alg = kMerge THEN MergeCands(combIds, postLists, skipVal, thresh)
  ELSE PriorQueueCands(combIds, postLists, skipVal, thresh)

\* perm_q[i] for i >= perm_q.size() reads outside the vector: any value
PermBeyond(perm, N, P, garbage) ==
  [i \in 0..(Max2(N, P) - 1) |-> IF i < N THEN perm[i] ELSE garbage]

\* the keys of a query at position q (garbage: what a read outside perm_q gives)
QueryCombIds(q, garbage) ==
  genPivotCombIds(PermBeyond(Permutation(q, num_pivot_), num_pivot_,
                             num_prefix_search_, garbage),
                  num_prefix_search_, pivot_comb_qty_, skip_val_)

NoSearch == [status |-> "none"]

\* a search that takes the postings of the query keys out of the lists
PostingListsDrained(postLists, combIds) ==
  [b \in DOMAIN postLists |-> IF b \in Range(combIds) THEN <<>> ELSE postLists[b]]
\* posting_lists_ as a search leaves it: GenSearch is const and every access
\* is a read through const PostingListHorderType &post = *posting_lists_[idiv]
PostingListsAfterSearch(postLists, combIds) == postLists

\* GenSearch(query, K) for a query at position q, as its caller sees one call:
\* the keys, the CHECKs and the candidates (lines 553-789). The pools, the
\* callback and the statistics of concurrent calls are followed step by step
\* by GenSearchBody, StatLock and StatUpdate (SpecSearch).
GenSearch(q) ==
  /\ state = "built"
  /\ \E garbage \in (IF num_prefix_search_ > num_pivot_
                     THEN 0..num_pivot_ ELSE {0}) :
       LET combIds == QueryCombIds(q, garbage)
           thresh == Thresh(pivot_comb_qty_, min_times_, num_prefix_)
           \* CHECK(num_prefix_search_ >= 1); CHECK_MSG(idiv < posting_lists_.size())
           checksPass ==
             /\ num_prefix_search_ >= 1
             /\ \A kk \in 1..Len(combIds) : combIds[kk] < maxPostQty_
       IN /\ posting_lists_' = PostingListsAfterSearch(posting_lists_, combIds)
          /\ search' =
               IF checksPass
               THEN [status |-> "ok", query |-> q, alg |-> inv_proc_alg_,
                     thresh |-> thresh,
                     cands |-> Cands(inv_proc_alg_, combIds, posting_lists_,
                                     skip_val_, thresh, DataQty)]
               ELSE [status |-> "abort", query |-> q, alg |-> inv_proc_alg_,
                     thresh |-> thresh, cands |-> {}]
  /\ queryCall' = EmptyQueryParams
  /\ queryErr' = "none"
  /\ UNCHANGED <<state, data, progress, buildParams, queryParams,
                 tmp_posting_lists_, tmp_post_doc_qty_, loop, indexCall, indexErr,
                 searchSide>>

SetQueryTimeParams(p) ==
  LET r == SetQueryTimeParamsResult(p, num_prefix_, num_pivot_)
  IN /\ skip_checking_' = r.skip_checking
     /\ min_times_' = r.min_times
     /\ num_prefix_search_' = r.num_prefix_search
     /\ inv_proc_alg_' = r.inv_proc_alg
     /\ queryCall' = p
     /\ queryErr' = r.err
     /\ search' = NoSearch
     /\ UNCHANGED <<state, data, progress, buildParams, lists, loop, indexCall, indexErr,
                     searchSide>>

(***************************************************************************)
(* Specifications.                                                         *)
(***************************************************************************)
\* the object after the constructor (lines 56-64)
Constructed(printProgress) ==
  /\ state = "new"
  /\ data \in DataSets
  /\ PrintProgress_ = printProgress
  /\ progress_bar_ = 0
  /\ num_pivot_ = 0 /\ num_prefix_ = 0 /\ index_thread_qty_ = 0
  /\ skip_val_ = 1 /\ pivot_comb_qty_ = 2 /\ maxPostQty_ = 0
  /\ skip_checking_ = FALSE /\ min_times_ = 0 /\ num_prefix_search_ = 0
  /\ inv_proc_alg_ = kStoreSort
  /\ posting_lists_ = <<>>
  /\ tmp_posting_lists_ = <<>>
  /\ tmp_post_doc_qty_ = <<>>
  /\ current = 0
  /\ wpc = [t \in Workers |-> "off"]
  /\ witem = [t \in Workers |-> 0]
  /\ sortLen = [t \in Workers |-> 0]
  /\ indexCall = NoIndexCall
  /\ indexErr = "none"
  /\ queryCall = EmptyQueryParams
  /\ queryErr = "none"
  /\ search = NoSearch
  /\ NoSearchYet

\* an index constructed without progress display
Init == Constructed(FALSE)

\* an index constructed with or without progress display
InitBuild == \E printProgress \in BOOLEAN : Constructed(printProgress)

\* the steps of the two ParallelFor loops of CreateIndex
BuildStep ==
  \/ \E t \in Workers :
       \/ IndexObject(t)
       \/ WorkerDone(t)
       \/ FlushBucket(t)
       \/ FlushNothing(t)
       \/ TakePivot(t)
       \/ SortBegin(t)
       \/ SortEnd(t)
       \/ SortOutOfRange(t)
  \/ StartIndexing
  \/ StartSorting
  \/ FinishBuild

\* an index built by one indexing thread, then queried
Next ==
  \/ /\ state = "new"
     /\ \E p \in IndexParamSet(1) : CreateIndex(p)
  \/ BuildStep
  \/ /\ state = "built"
     /\ \E p \in QueryParamSet : SetQueryTimeParams(p)
  \/ \E q \in QueryPos : GenSearch(q)

Spec == Init /\ [][Next]_vars

\* the build with up to MaxThreads indexing threads
NextBuild ==
  \/ /\ state = "new"
     /\ \E p \in IndexParamSet(MaxThreads) : CreateIndex(p)
  \/ BuildStep

SpecBuild == InitBuild /\ [][NextBuild]_vars

(***************************************************************************)
(* The posting lists after the build (SpecBuild).                          *)
(***************************************************************************)
Occurrences(s, x) == Cardinality({i \in 1..Len(s) : s[i] = x})

\* the keys genPivotCombIds emits for object id at build time
ObjectKeys(id) ==
  Range(genPivotCombIds(Permutation(data[id + 1], num_pivot_), num_prefix_,
                        pivot_comb_qty_, skip_val_))

Buckets == 0..(maxPostQty_ - 1)
ObjectIds == 0..(DataQty - 1)

StrictlyAscending(s) == \A i \in 1..(Len(s) - 1) : s[i] < s[i + 1]

\* C1: after CreateIndex returns, every shared posting list PL[b] holds an
\* object id exactly once if b is a key of the object's prefix and not at all
\* otherwise, no pair is left in a per-thread partial list, and every stored
\* id is in [0, D) -- for any number of workers and any interleaving.
C1_EveryPairExactlyOnce ==
  state = "built" =>
    /\ \A b \in Buckets : \A id \in ObjectIds :
         Occurrences(posting_lists_[b], id) = IF b \in ObjectKeys(id) THEN 1 ELSE 0
    /\ \A t \in DOMAIN tmp_posting_lists_ : \A b \in Buckets :
         tmp_posting_lists_[t][b] = <<>>
    /\ \A b \in Buckets : Range(posting_lists_[b]) \subseteq ObjectIds

\* C2: after CreateIndex returns, every posting list is strictly ascending,
\* for any number of workers and any interleaving of flushes and sorts.
C2_ListsStrictlyAscending ==
  state = "built" => \A b \in Buckets : StrictlyAscending(posting_lists_[b])

(***************************************************************************)
(* Candidate generation on a built index (Spec).                           *)
(***************************************************************************)
\* a search that ran to its end with a query prefix inside the permutation
SearchDone == search.status = "ok" /\ num_prefix_search_ <= num_pivot_

SearchKeys == QueryCombIds(search.query, 0)

\* C3: for every built index, query and setting of num_prefix_search,
\* min_times and skip_val, the four algorithms scan, store-sort, merge and
\* priority-queue give the same set of candidate ids, threshold 0 included.
C3_FourAlgorithmsAgree ==
  SearchDone =>
    \A alg \in InvProcAlgs :
      Cands(alg, SearchKeys, posting_lists_, skip_val_, search.thresh, DataQty)
        = search.cands

\* the ids a brute-force count over the query's buckets selects
BruteForce(keys, thresh) ==
  {id \in ObjectIds :
     skip_val_ * Cardinality({b \in Range(keys) : id \in Range(posting_lists_[b])})
       >= thresh}

\* C4: the candidate set of each algorithm is exactly the set of ids whose
\* number of occurrences in the query's buckets, times skip_val, reaches the
\* threshold computed from min_times, num_prefix and k.
C4_CandidatesAreBruteForce ==
  SearchDone => search.cands = BruteForce(SearchKeys, search.thresh)

\* C6: with k = 2, skip_val = 1, num_prefix = 2 and min_times = 1 the
\* threshold is 1 and the candidates are exactly the objects that share at
\* least one pivot pair key with the query.
C6_SharedPairCandidates ==
  ( /\ SearchDone
    /\ pivot_comb_qty_ = 2 /\ skip_val_ = 1 /\ num_prefix_ = 2 /\ min_times_ = 1 )
  => /\ search.thresh = 1
     /\ search.cands = {id \in ObjectIds : ObjectKeys(id) \cap Range(SearchKeys) # {}}

(***************************************************************************)
(* The threshold as a function of k, min_times and num_prefix              *)
(* (SpecThresh draws the three inputs and applies lines 604-609).          *)
(***************************************************************************)
HugeMinTimes == SizeMod \div 2
ThreshMinTimes == (0..MaxMinTimes) \cup {HugeMinTimes}

InitThresh ==
  /\ state = "thresh"
  /\ data = <<>>
  /\ PrintProgress_ = FALSE /\ progress_bar_ = 0
  /\ num_pivot_ = MaxPivot /\ num_prefix_ \in 0..MaxPivot /\ index_thread_qty_ = 1
  /\ skip_val_ = 1 /\ pivot_comb_qty_ \in 1..3 /\ maxPostQty_ = 0
  /\ skip_checking_ = FALSE /\ min_times_ \in ThreshMinTimes
  /\ num_prefix_search_ = 0
  /\ inv_proc_alg_ = kStoreSort
  /\ posting_lists_ = <<>>
  /\ tmp_posting_lists_ = <<>>
  /\ tmp_post_doc_qty_ = <<>>
  /\ current = 0
  /\ wpc = [t \in Workers |-> "off"]
  /\ witem = [t \in Workers |-> 0]
  /\ sortLen = [t \in Workers |-> 0]
  /\ indexCall = NoIndexCall
  /\ indexErr = "none"
  /\ queryCall = EmptyQueryParams
  /\ queryErr = "none"
  /\ search = NoSearch
  /\ NoSearchYet

\* size_t thresh = min_times_; #if SCALE_MIN_TIMES (defined true at line 41):
\* if (pivot_comb_qty_ == 3) ...; if (pivot_comb_qty_ == 2) ...
ComputeThresh ==
  /\ state = "thresh"
  /\ search = NoSearch
  /\ search' = [status |-> "thresh",
                thresh |-> Thresh(pivot_comb_qty_, min_times_, num_prefix_)]
  /\ UNCHANGED <<state, data, progress, buildParams, queryParams, lists, loop, indexCall,
                 indexErr, queryCall, queryErr, searchSide>>

NextThresh == ComputeThresh
SpecThresh == InitThresh /\ [][NextThresh]_vars

\* the threshold as the formulas give it over the integers
ThreshFormula(k, minTimes, numPrefix) ==
  IF k = 1 THEN minTimes
  ELSE IF k = 2 THEN (minTimes * (numPrefix - 1)) \div 2
  ELSE (minTimes * (numPrefix - 1) * (numPrefix - 2)) \div 6

\* the products of the formulas are representable: no factor is negative and
\* nothing exceeds the range of size_t
FitsSizeT(k, minTimes, numPrefix) ==
  \/ k = 1
  \/ k = 2 /\ numPrefix >= 1 /\ minTimes * (numPrefix - 1) < SizeMod
  \/ /\ k = 3
     /\ \/ numPrefix >= 2 /\ minTimes * (numPrefix - 1) * (numPrefix - 2) < SizeMod
        \/ minTimes = 0

\* C5: the threshold is min_times for k = 1, min_times*(num_prefix-1)/2 for
\* k = 2 and min_times*(num_prefix-1)*(num_prefix-2)/6 for k = 3, for every
\* min_times and every num_prefix in [0, N].
C5_ThreshForEveryInput ==
  search.status = "thresh" =>
    search.thresh = ThreshFormula(pivot_comb_qty_, min_times_, num_prefix_)

\* Where the products are representable in size_t (which needs
\* num_prefix >= 1 for k = 2) the threshold does follow the three formulas;
\* this holds in SpecThresh.
ThreshWhenRepresentable ==
  ( /\ search.status = "thresh"
    /\ FitsSizeT(pivot_comb_qty_, min_times_, num_prefix_) )
  => search.thresh = ThreshFormula(pivot_comb_qty_, min_times_, num_prefix_)

(***************************************************************************)
(* Parameter handling (Spec).                                              *)
(***************************************************************************)
CreateIndexCalled == indexCall # NoIndexCall
SetQueryTimeParamsCalled == queryErr # "none"

\* the value a caller asks for num_prefix_ and num_prefix_search_
AskedNumPrefix ==
  IF indexCall.numPrefix # Absent THEN indexCall.numPrefix
  ELSE IF indexCall.numPivotIndex # Absent THEN indexCall.numPivotIndex
  ELSE 32
AskedNumPrefixSearch ==
  IF queryCall.numPrefixSearch # Absent THEN queryCall.numPrefixSearch
  ELSE num_prefix_

BothIndexNamesGiven ==
  indexCall.numPivotIndex # Absent /\ indexCall.numPrefix # Absent
BothSearchNamesGiven ==
  queryCall.minTimes # Absent /\ queryCall.numPivotSearch # Absent

\* C7: minTimes = m alone, or numPivotSearch = m alone, makes m the threshold
\* base; with neither the base is 2.
C7_EitherNameSetsMinTimes ==
  (SetQueryTimeParamsCalled /\ queryErr = "ok") =>
    min_times_ = IF queryCall.minTimes # Absent THEN queryCall.minTimes
                 ELSE IF queryCall.numPivotSearch # Absent
                      THEN queryCall.numPivotSearch
                      ELSE 2

\* a CreateIndex call whose parameters other than pivotCombQty are acceptable
OtherIndexParamsValid ==
  /\ CreateIndexCalled
  /\ ~BothIndexNamesGiven
  /\ AskedNumPrefix <= indexCall.numPivot
  /\ ~indexCall.unknownKey

C9_PrefixChecks ==
  /\ (CreateIndexCalled /\ ~BothIndexNamesGiven) =>
       /\ indexErr = "numPrefix" <=> AskedNumPrefix > indexCall.numPivot
       /\ ( /\ AskedNumPrefix <= indexCall.numPivot
            /\ indexCall.pivotCombQty = 2
            /\ ~indexCall.unknownKey )
          => (indexErr = "ok" /\ state = "setup" /\ num_prefix_ = AskedNumPrefix)
  /\ (SetQueryTimeParamsCalled /\ ~BothSearchNamesGiven) =>
       /\ queryErr = "numPrefixSearch" <=> AskedNumPrefixSearch > num_pivot_
       /\ ( /\ AskedNumPrefixSearch <= num_pivot_
            /\ queryCall.invProcAlg \in InvProcAlgs \cup {""}
            /\ ~queryCall.unknownKey )
          => (queryErr = "ok" /\ num_prefix_search_ = AskedNumPrefixSearch)

\* an index built with num_prefix = num_pivot, on which num_prefix_search =
\* num_pivot was accepted
C9_Witness ==
  /\ state = "built"
  /\ num_prefix_ = num_pivot_
  /\ queryErr = "ok"
  /\ queryCall.numPrefixSearch = num_pivot_
  /\ num_prefix_search_ = num_pivot_

\* C10 (as stated): both names of a parameter are rejected when their values
\* differ and accepted when the values are equal.
C10_EqualSynonymsAccepted ==
  /\ (CreateIndexCalled /\ BothIndexNamesGiven) =>
       (indexErr = "synonyms" <=> indexCall.numPivotIndex # indexCall.numPrefix)
  /\ (SetQueryTimeParamsCalled /\ BothSearchNamesGiven) =>
       (queryErr = "synonyms" <=> queryCall.minTimes # queryCall.numPivotSearch)

\* C10 (amended): both names of a parameter are rejected whenever both are
\* given, whether or not the values are equal.
C10_SynonymsRejectedTogether ==
  /\ (CreateIndexCalled /\ BothIndexNamesGiven) =>
       (indexErr = "synonyms" /\ state = "failed")
  /\ (SetQueryTimeParamsCalled /\ BothSearchNamesGiven) => queryErr = "synonyms"

\* minTimes and numPivotSearch given with one value, and refused
C10_Witness ==
  /\ state = "built"
  /\ queryCall.minTimes # Absent
  /\ queryCall.minTimes = queryCall.numPivotSearch
  /\ queryErr = "synonyms"

(***************************************************************************)
(* A search with an empty query prefix.                                    *)
(***************************************************************************)
\* C11 (as stated): a search run with num_prefix_search_ = 0 returns normally
\* with an empty candidate set, whatever the algorithm.
C11_ZeroPrefixSearchCompletes ==
  (search.status \in {"ok", "abort"} /\ num_prefix_search_ = 0) =>
    (search.status = "ok" /\ search.cands = {})

(***************************************************************************)
(* The workers of the build (SpecBuild).                                   *)
(***************************************************************************)
\* C15 reference: the lists of the build with one worker, which takes the
\* objects in id order and flushes them in that order: bucket b holds, in
\* ascending order, the ids of the objects having key b
RECURSIVE IdsWithKey(_, _)
IdsWithKey(b, id) ==
  IF id >= DataQty THEN <<>>
  ELSE (IF b \in ObjectKeys(id) THEN <<id>> ELSE <<>>) \o IdsWithKey(b, id + 1)

SingleWorkerLists == [b \in Buckets |-> IdsWithKey(b, 0)]

\* C15 (as stated): the posting lists of a finished build are the same lists,
\* with the same ids in the same order, whatever the number of workers and
\* the interleaving; so every build ends with the lists of the one-worker build.
C15_BuildsIdentical ==
  state = "built" => posting_lists_ = SingleWorkerLists

\* the build with one worker does end with these lists (holds in Spec)
SingleWorkerBuildIsReference ==
  (state = "built" /\ index_thread_qty_ = 1) => posting_lists_ = SingleWorkerLists

\* C19 (as stated): when CreateIndex returns, every worker has done its final
\* flush: every partial list of every worker is empty.
C19_PartialListsEmptyAtEnd ==
  state = "built" =>
    \A t \in 0..(index_thread_qty_ - 1) : \A b \in Buckets :
      tmp_posting_lists_[t][b] = <<>>

\* C20 (as stated): while a worker sorts posting_lists_[b] no other worker
\* appends to that list: the list has the length it had when the sort began.
C20_NoAppendWhileSorting ==
  \A t \in Workers :
    wpc[t] = "sorting" => Len(posting_lists_[witem[t]]) = sortLen[t]

(***************************************************************************)
(* genPivotCombIds as a function of the permutation, the prefix length,    *)
(* pivot_comb_qty_ and skip_val_ (SpecEncode draws the inputs and applies  *)
(* lines 483-549).                                                         *)
(***************************************************************************)
\* the CHECKs of genPivotCombIds: pivot_comb_qty_ in 1..3 and, in the branch
\* pivot_comb_qty_ == 1 only, permPrefixSize < perm.size()
genPivotCombIdsReturns(perm, P, combQty) ==
  /\ combQty >= 1 /\ combQty <= 3
  /\ combQty = 1 => P < Cardinality(DOMAIN perm)

PivotPermutations(N) ==
  {f \in [0..(N - 1) -> 0..(N - 1)] : \A i, j \in 0..(N - 1) : f[i] = f[j] => i = j}

InitEncode ==
  /\ state = "encode"
  /\ data = <<>>
  /\ PrintProgress_ = FALSE /\ progress_bar_ = 0
  /\ num_pivot_ \in 1..MaxPivot
  /\ num_prefix_ \in 0..num_pivot_
  /\ index_thread_qty_ = 1
  /\ skip_val_ \in 1..MaxSkipVal
  /\ pivot_comb_qty_ \in 1..3
  /\ maxPostQty_ = getPostQtys(num_pivot_, pivot_comb_qty_, skip_val_)
  /\ skip_checking_ = FALSE /\ min_times_ = 0 /\ num_prefix_search_ = 0
  /\ inv_proc_alg_ = kStoreSort
  /\ posting_lists_ = <<>>
  /\ tmp_posting_lists_ = <<>>
  /\ tmp_post_doc_qty_ = <<>>
  /\ current = 0
  /\ wpc = [t \in Workers |-> "off"]
  /\ witem = [t \in Workers |-> 0]
  /\ sortLen = [t \in Workers |-> 0]
  /\ indexCall = NoIndexCall
  /\ indexErr = "none"
  /\ queryCall = EmptyQueryParams
  /\ queryErr = "none"
  /\ \E perm \in PivotPermutations(num_pivot_) :
       search = [status |-> "perm", perm |-> perm]
  /\ NoSearchYet

\* genPivotCombIds(ids, perm, num_prefix_): ids[0..resSize) is the sequence
\* ids of the record, resSize its length
Encode ==
  /\ state = "encode"
  /\ search.status = "perm"
  /\ search' =
       IF genPivotCombIdsReturns(search.perm, num_prefix_, pivot_comb_qty_)
       THEN [status |-> "keys", perm |-> search.perm,
             ids |-> genPivotCombIds(search.perm, num_prefix_, pivot_comb_qty_,
                                     skip_val_)]
       ELSE [status |-> "abort", perm |-> search.perm, ids |-> <<>>]
  /\ UNCHANGED <<state, data, progress, buildParams, queryParams, lists, loop, indexCall,
                 indexErr, queryCall, queryErr, searchSide>>

NextEncode == Encode
SpecEncode == InitEncode /\ [][NextEncode]_vars

\* the k-combinations of the first P entries of a permutation
Combinations(perm, P, k) ==
  {S \in SUBSET {perm[i] : i \in 0..(P - 1)} : Cardinality(S) = k}

SetMax(S) == CHOOSE x \in S : \A y \in S : y <= x

\* the raw index of a combination: x for {x}; a(a-1)/2 + b for {a > b};
\* a(a-1)(a-2)/6 + b(b-1)/2 + c for {a > b > c}
RawIndex(S) ==
  LET a == SetMax(S)
  IN IF Cardinality(S) = 1 THEN a
     ELSE LET b == SetMax(S \ {a})
          IN IF Cardinality(S) = 2 THEN (a * (a - 1)) \div 2 + b
             ELSE LET c == SetMax(S \ {a, b})
                  IN (a * (a - 1) * (a - 2)) \div 6 + (b * (b - 1)) \div 2 + c

\* the ids hold index / skip_val_ once for every combination whose raw index
\* is divisible by skip_val_, and nothing else
KeysOfAllCombinations ==
  \A v \in 0..(maxPostQty_ + MaxPivot) :
    Occurrences(search.ids, v) =
      Cardinality({S \in Combinations(search.perm, num_prefix_, pivot_comb_qty_) :
                     RawIndex(S) % skip_val_ = 0 /\ RawIndex(S) \div skip_val_ = v})

EncodeCalled == state = "encode" /\ search.status \in {"keys", "abort"}

\* C16 (as stated): for every permutation, every prefix length and every
\* pivot_comb_qty_ in 1..3 genPivotCombIds returns index / skip_val_ exactly
\* once for every combination of the first P entries whose raw index is
\* divisible by skip_val_ (every raw index when skip_val_ = 1), and its
\* count is the number of keys written.
C16_EncodesEveryCombination ==
  EncodeCalled =>
    /\ search.status = "keys"
    /\ KeysOfAllCombinations
    /\ Len(search.ids) =
         Cardinality({S \in Combinations(search.perm, num_prefix_, pivot_comb_qty_) :
                        RawIndex(S) % skip_val_ = 0})

\* whenever genPivotCombIds returns, it returns these keys (holds in SpecEncode)
EncodesEveryCombinationWhenReturns ==
  (EncodeCalled /\ search.status = "keys") => KeysOfAllCombinations

\* C17 (as stated): with the full prefix P = N the encoding succeeds and emits
\* the keys of all combinations passing the skip filter, for pivot_comb_qty_
\* 1, 2 and 3.
C17_FullPrefixEncodes ==
  (EncodeCalled /\ num_prefix_ = num_pivot_) =>
    (search.status = "keys" /\ KeysOfAllCombinations)

\* C18: PostingListIndex does not depend on the order of its arguments, maps
\* different unordered pairs of pivots to different indices and covers
\* 0 .. N(N-1)/2 - 1; the pair keys of one object are pairwise distinct and
\* each is below maxPostQty_.
C18_PairIndexBijection ==
  state = "encode" =>
    LET N == num_pivot_
        Pairs == {S \in SUBSET (0..(N - 1)) : Cardinality(S) = 2}
        Index(S) == LET x == SetMax(S) y == SetMax(S \ {x}) IN PostingListIndex(x, y)
    IN /\ \A x, y \in 0..(N - 1) :
            x # y => PostingListIndex(x, y) = PostingListIndex(y, x)
       /\ \A S, T \in Pairs : Index(S) = Index(T) => S = T
       /\ {Index(S) : S \in Pairs} = 0..((N * (N - 1)) \div 2 - 1)
       /\ (search.status = "keys" /\ pivot_comb_qty_ = 2) =>
            /\ \A i, j \in 1..Len(search.ids) :
                 search.ids[i] = search.ids[j] => i = j
            /\ \A i \in 1..Len(search.ids) : search.ids[i] < maxPostQty_

\* the pair keys of a full prefix of three pivots
C18_Witness ==
  /\ state = "encode"
  /\ search.status = "keys"
  /\ pivot_comb_qty_ = 2
  /\ num_pivot_ = 3 /\ num_prefix_ = 3 /\ skip_val_ = 1
  /\ Len(search.ids) = 3

(***************************************************************************)
(* Searches by several query threads (SpecSearch): the candidate vector,   *)
(* the calls of CheckAndAddToResult, the pools and the statistics          *)
(* (GenSearch, lines 553-811).                                             *)
(***************************************************************************)
MaxSearches == 4

RECURSIVE ScanCandList(_, _, _, _)
\* kScan: for (i = 0; i < dataQty; ++i) if (counter[i] >= thresh) add data[i]
ScanCandList(counter, i, dataQty, thresh) ==
  IF i >= dataQty THEN <<>>
  ELSE (IF Enough(counter[i], thresh) THEN <<i>> ELSE <<>>)
         \o ScanCandList(counter, i + 1, dataQty, thresh)

RECURSIVE ScanSortedList(_, _, _, _)
\* kStoreSort: one candidate per run of equal ids that is long enough
ScanSortedList(tmpRes, start, skipVal, thresh) ==
  IF start > Len(tmpRes) THEN <<>>
  ELSE LET next == RunEnd(tmpRes, start + 1)
       IN (IF Enough(skipVal * (next - start), thresh) THEN <<tmpRes[start]>>
           ELSE <<>>)
            \o ScanSortedList(tmpRes, next, skipVal, thresh)

RECURSIVE MergeCandList(_, _)
\* kMerge: for (it : tmpRes[1 - prevRes]) if (it.qty >= thresh) add data[it.id]
MergeCandList(res, thresh) ==
  IF res = <<>> THEN <<>>
  ELSE (IF Enough(Head(res).qty, thresh) THEN <<Head(res).id>> ELSE <<>>)
         \o MergeCandList(Tail(res), thresh)

RECURSIVE PriorQueueCandList(_, _, _, _, _)
\* kPriorQueue: one candidate per document whose accum reaches thresh
PriorQueueCandList(pos, combIds, postLists, skipVal, thresh) ==
  IF DOMAIN pos = {} THEN <<>>
  ELSE LET kk == TopOfQueue(pos, combIds, postLists)
           minDocId == postLists[combIds[kk]][pos[kk]]
           r == PriorQueueInner(pos, 0, minDocId, combIds, postLists, skipVal)
       IN (IF Enough(r.accum, thresh) THEN <<minDocId>> ELSE <<>>)
            \o PriorQueueCandList(r.pos, combIds, postLists, skipVal, thresh)

\* what a pooled vector may hold when it is loaned: nothing, or whatever an
\* earlier query left in it (the pools hand vectors out without clearing them)
StaleContents == {<<>>, <<1, 0, 1, 0>>}

\* a pooled vector after its first Len(items) elements were written (the vector
\* is resized when it is too short); the elements beyond them keep what they held
WriteBuffer(buf, items) == items \o SubSeq(buf, Len(items) + 1, Len(buf))

\* a reader that runs to the end of the vector instead of the recorded size
WholeBuffer(buf, size) == buf
\* the part of a pooled vector a reader visits: the loops run over kk < cqty,
\* start < tmpResSize and i < candQty, never to the end of the vector
BufferPrefix(buf, size) == SubSeq(buf, 1, size)

\* tmpRes[0..tmpResSize) after the postings of the query keys were copied into
\* the loaned vector and that range was sorted
SortedTmpRes(tmpRes, combIds, postLists) ==
  LET copied == CopyPostings(combIds, postLists)
  IN integer_sort(BufferPrefix(WriteBuffer(tmpRes, copied), Len(copied)))

\* cands[0..candQty): the object ids in the order addToVectorWithResSize
\* received them; tmpRes is the vector loaned from tmp_res_pool_
CandList(alg, combIds, postLists, skipVal, thresh, dataQty, tmpRes) ==
  IF alg = kScan
  THEN ScanCandList(ScanCounter([i \in 0..(dataQty - 1) |-> 0], combIds,
                                postLists, skipVal),
                    0, dataQty, thresh)
  ELSE IF alg = kStoreSort
  THEN ScanSortedList(SortedTmpRes(tmpRes, combIds, postLists), 1, skipVal,
                      thresh)
  ELSE IF alg = kMerge
  THEN MergeCandList(MergeResultList(MergeLoop([i \in 0..1 |-> <<>>], 0, combIds,
                                               postLists, skipVal)),
                     thresh)
  ELSE PriorQueueCandList(InitQueryStates(combIds, postLists), combIds, postLists,
                          skipVal, thresh)

\* every candidate is checked whatever skip_checking_ says
CheckedAlways(skipChecking, cands) == cands
\* if (!skip_checking_) for (i < candQty) query->CheckAndAddToResult(cands[i]):
\* the objects the callback is called with, in order
CheckAndAddToResultCalls(skipChecking, cands) ==
  IF ~skipChecking THEN cands ELSE <<>>

RECURSIVE PostingsOf(_, _)
\* post_qty += post.size() for every query key
PostingsOf(combIds, postLists) ==
  IF combIds = <<>> THEN 0
  ELSE Len(postLists[Head(combIds)]) + PostingsOf(Tail(combIds), postLists)

\* the local post_qty at the end of the algorithm. kPriorQueue counts one for
\* every non-empty list it starts on and one for every step along a list.
PostQty(alg, combIds, postLists) ==
  IF alg = kPriorQueue
  THEN Cardinality(DOMAIN InitQueryStates(combIds, postLists))
         + PostingsOf(combIds, postLists)
  ELSE PostingsOf(combIds, postLists)

\* the index and the search parameters of SpecSearch
SearchIndexParamSet ==
  {p \in IndexParamSet(1) :
     /\ p.numPivot = MaxPivot /\ p.numPivotIndex = Absent /\ p.numPrefix = 2
     /\ p.pivotCombQty = 2 /\ ~p.unknownKey}

SearchQueryParamSet ==
  [skipChecking : {Absent, 1},
   invProcAlg : {"", kScan, kMerge, kPriorQueue},
   minTimes : {Absent},
   numPivotSearch : {Absent},
   numPrefixSearch : {Absent, 0, MaxPivot},
   unknownKey : {FALSE}]

InFlight == {t \in QueryThreads : qpc[t] # "idle"}
NoSearchRunning == InFlight = {}
SearchesBegun == done.returned + done.aborted + Cardinality(InFlight)

\* GenSearch, lines 553-789, in query thread t for a query at position q: the
\* loans from the pools, the keys, the CHECKs and the candidates of the
\* algorithm, the calls of CheckAndAddToResult. A failed CHECK throws out of
\* GenSearch: nothing after it is executed.
GenSearchBody(t, q) ==
  /\ state = "built"
  /\ qpc[t] = "idle"
  /\ SearchesBegun < MaxSearches
  /\ \E garbage \in (IF num_prefix_search_ > num_pivot_
                     THEN 0..num_pivot_ ELSE {0}) :
     \E stale \in StaleContents, keys \in {QueryCombIds(q, garbage)} :
     \E combIds \in {BufferPrefix(WriteBuffer(stale, keys), Len(keys))} :
       LET thresh == Thresh(pivot_comb_qty_, min_times_, num_prefix_)
           useTmpRes == inv_proc_alg_ = kStoreSort
           checksPass ==
             /\ num_prefix_search_ >= 1
             /\ \A kk \in 1..Len(combIds) : combIds[kk] < maxPostQty_
           found == IF checksPass
                    THEN CandList(inv_proc_alg_, combIds, posting_lists_, skip_val_,
                                  thresh, DataQty, stale)
                    ELSE <<>>
           cands == BufferPrefix(WriteBuffer(stale, found), Len(found))
       IN /\ posting_lists_' = PostingListsAfterSearch(posting_lists_, combIds)
          /\ loans' = [cand |-> loans.cand + 1,
                       tmpRes |-> loans.tmpRes + (IF useTmpRes THEN 1 ELSE 0),
                       combId |-> loans.combId + 1]
          /\ IF checksPass
             THEN /\ search' =
                       [status |-> "ok", query |-> q, alg |-> inv_proc_alg_,
                        thresh |-> thresh,
                        cands |-> Cands(inv_proc_alg_, combIds, posting_lists_,
                                        skip_val_, thresh, DataQty),
                        candVector |-> cands,
                        checked |-> CheckAndAddToResultCalls(skip_checking_, cands)]
                  /\ qpc' = [qpc EXCEPT ![t] = "stat"]
                  /\ qlocal' = [qlocal EXCEPT ![t] =
                       [post_qty |-> PostQty(inv_proc_alg_, combIds, posting_lists_),
                        tmpRes |-> useTmpRes, proc_read |-> 0, post_read |-> 0]]
                  /\ UNCHANGED done
             ELSE /\ search' =
                       [status |-> "abort", query |-> q, alg |-> inv_proc_alg_,
                        thresh |-> thresh, cands |-> {}, candVector |-> <<>>,
                        checked |-> <<>>]
                  /\ done' = [done EXCEPT !.aborted = @ + 1]
                  /\ UNCHANGED <<qpc, qlocal>>
  /\ queryCall' = EmptyQueryParams
  /\ queryErr' = "none"
  /\ UNCHANGED <<state, data, progress, buildParams, queryParams,
                 tmp_posting_lists_, tmp_post_doc_qty_, loop, indexCall, indexErr,
                 stats>>

\* the mutex is taken whoever holds it
StatMutexIgnored(owner) == TRUE
\* unique_lock<mutex> lock(stat_mutex_) returns when the mutex is free
StatMutexFree(owner) == owner = NoOwner

\* lines 791-802, first half: the lock is taken and the counters are read
StatLock(t) ==
  /\ qpc[t] = "stat"
  /\ StatMutexFree(stat_mutex_)
  /\ stat_mutex_' = t
  /\ qlocal' = [qlocal EXCEPT ![t].proc_read = proc_query_qty_,
                              ![t].post_read = post_qty_]
  /\ qpc' = [qpc EXCEPT ![t] = "locked"]
  /\ UNCHANGED <<state, data, progress, buildParams, queryParams, lists, loop, calls,
                 proc_query_qty_, post_qty_, loans, done>>

\* lines 801-811: proc_query_qty_++ and post_qty_ += post_qty are written, the
\* lock is dropped, the vectors go back to their pools, GenSearch returns
StatUpdate(t) ==
  /\ qpc[t] = "locked"
  /\ proc_query_qty_' = qlocal[t].proc_read + 1
  /\ post_qty_' = qlocal[t].post_read + qlocal[t].post_qty
  /\ stat_mutex_' = NoOwner
  /\ loans' = [cand |-> loans.cand - 1,
               tmpRes |-> loans.tmpRes - (IF qlocal[t].tmpRes THEN 1 ELSE 0),
               combId |-> loans.combId - 1]
  /\ done' = [done EXCEPT !.returned = @ + 1,
                          !.postings = @ + qlocal[t].post_qty]
  /\ qpc' = [qpc EXCEPT ![t] = "idle"]
  /\ qlocal' = [qlocal EXCEPT ![t] = NoLocals]
  /\ UNCHANGED <<state, data, progress, buildParams, queryParams, lists, loop, calls>>

\* an index built by one indexing thread, its parameters set while no search
\* runs, searched by the query threads
NextSearch ==
  \/ /\ state = "new"
     /\ \E p \in SearchIndexParamSet : CreateIndex(p)
  \/ BuildStep
  \/ /\ state = "built"
     /\ NoSearchRunning
     /\ \E p \in SearchQueryParamSet : SetQueryTimeParams(p)
  \/ \E t \in QueryThreads :
       \/ \E q \in QueryPos : GenSearchBody(t, q)
       \/ StatLock(t)
       \/ StatUpdate(t)

SpecSearch == Init /\ [][NextSearch]_vars

C13_LoansReturned ==
  NoSearchRunning => loans = [cand |-> 0, tmpRes |-> 0, combId |-> 0]

\* C14: the statistics are written only by the thread holding stat_mutex_, one
\* at a time; proc_query_qty_ is the number of searches that returned and
\* post_qty_ the sum of their posting counts, whatever the interleaving and
\* however many searches were aborted.
C14_StatsCountReturnedSearches ==
  /\ \A t, u \in QueryThreads : (qpc[t] = "locked" /\ qpc[u] = "locked") => t = u
  /\ \A t \in QueryThreads : qpc[t] = "locked" => stat_mutex_ = t
  /\ proc_query_qty_ = done.returned
  /\ post_qty_ = done.postings

\* one search counted and one aborted; two more searches at the statistics
\* block, one holding the mutex, the other waiting for it
C14_Witness ==
  /\ proc_query_qty_ = 1 /\ post_qty_ > 0
  /\ done.aborted = 1
  /\ \E t, u \in QueryThreads : qpc[t] = "locked" /\ qpc[u] = "stat"

(***************************************************************************)
(* The flush cadence of the object-processing phase (SpecBuild).           *)
(***************************************************************************)
\* worker t has run the per-object body in this step
ProcessedObject(t) ==
  /\ state = "indexing"
  /\ state' = "indexing"
  /\ wpc[t] = "take"
  /\ tmp_post_doc_qty_'[t] = tmp_post_doc_qty_[t] + 1

\* C21: a worker that has processed an object goes on to flush exactly when
\* its count of objects since its last flush has reached MAX_TMP_DOC_QTY,
\* whatever id % 1000 and PrintProgress_ are; a flush of the first loop is
\* started by nothing else.
C21_FlushCadence ==
  [][\A t \in Workers :
       /\ ProcessedObject(t) =>
            (wpc'[t] = "flush1" <=> tmp_post_doc_qty_'[t] >= MAX_TMP_DOC_QTY)
       /\ (wpc[t] # "flush1" /\ wpc'[t] = "flush1") => ProcessedObject(t)]_vars

\* a worker about to flush at the threshold although the progress display is
\* off, another object having been processed without a flush before
C21_Witness ==
  /\ state = "indexing"
  /\ ~PrintProgress_
  /\ \E t \in Workers :
       wpc[t] = "flush1" /\ tmp_post_doc_qty_[t] = MAX_TMP_DOC_QTY

(***************************************************************************)
(* The list the merge algorithm reads its candidates from (Spec).          *)
(***************************************************************************)
\* the number of query buckets whose posting list holds id
BucketsHolding(keys, id) ==
  Cardinality({b \in Range(keys) : id \in Range(posting_lists_[b])})

\* C22 (as stated): after the merge loop the list the candidates are read
\* from holds every id of the query's buckets with the count skip_val times
\* the number of query buckets holding it, the last bucket merged included,
\* and the ids emitted are those whose count reaches the threshold.
C22_MergeListCountsEveryBucket ==
  (SearchDone /\ search.alg = kMerge) =>
    LET res == MergeResultList(MergeLoop([i \in 0..1 |-> <<>>], 0, SearchKeys,
                                         posting_lists_, skip_val_))
    IN /\ {res[i].id : i \in 1..Len(res)}
            = {id \in ObjectIds : BucketsHolding(SearchKeys, id) > 0}
       /\ \A i \in 1..Len(res) :
            res[i].qty = skip_val_ * BucketsHolding(SearchKeys, res[i].id)
       /\ search.cands =
            {id \in ObjectIds : /\ BucketsHolding(SearchKeys, id) > 0
                                /\ skip_val_ * BucketsHolding(SearchKeys, id)
                                     >= search.thresh}

(***************************************************************************)
(* The posting lists under searches (SpecSearch).                          *)
(***************************************************************************)
\* C23: once the build has ended no step changes a posting list: not a
\* search, sequential or concurrent, under any algorithm, and not a change of
\* the query-time parameters.
C23_SearchKeepsPostingLists ==
  [][state = "built" => posting_lists_' = posting_lists_]_vars

\* searches that returned and a search that was aborted, on an index with a
\* posting list of two objects, one more search being at its statistics
C23_Witness ==
  /\ state = "built"
  /\ done.returned >= 2 /\ done.aborted >= 1
  /\ InFlight # {}
  /\ \E b \in Buckets : Len(posting_lists_[b]) >= 2

(***************************************************************************)
(* SetQueryTimeParams that ends with an error (Spec).                      *)
(***************************************************************************)
QueryParamErrors == {"synonyms", "numPrefixSearch", "invProcAlg", "unused"}

\* C24 (as stated): a SetQueryTimeParams call that fails leaves skip_checking_,
\* min_times_, num_prefix_search_ and inv_proc_alg_ as they were before it.
C24_FailedCallKeepsParams ==
  [][(state = "built" /\ queryErr' \in QueryParamErrors)
       => queryParams' = queryParams]_vars

MaxQueueSearches == 2

QueueIndexParamSet ==
  {p \in IndexParamSet(1) :
     /\ p.numPivot = MaxPivot /\ p.numPivotIndex = Absent /\ p.numPrefix \in {2, 3}
     /\ p.pivotCombQty = 2 /\ ~p.unknownKey}

QueueQueryParamSet ==
  {p \in SearchQueryParamSet : p.invProcAlg = kPriorQueue /\ p.skipChecking = Absent}

InQueueLoop(t) == qpc[t] \in {"outer", "inner"}

\* GenSearch with inv_proc_alg_ = kPriorQueue, lines 553-640, in query thread t:
\* the loans, the keys, the CHECKs, one query state and one heap entry for
\* every non-empty posting list of the query keys, accum = 0
QueueBegin(t, q) ==
  /\ state = "built"
  /\ qpc[t] = "idle"
  /\ inv_proc_alg_ = kPriorQueue
  /\ SearchesBegun < MaxQueueSearches
  /\ \E garbage \in (IF num_prefix_search_ > num_pivot_
                     THEN 0..num_pivot_ ELSE {0}) :
     \E stale \in StaleContents, keys \in {QueryCombIds(q, garbage)} :
     \E combIds \in {BufferPrefix(WriteBuffer(stale, keys), Len(keys))} :
       LET thresh == Thresh(pivot_comb_qty_, min_times_, num_prefix_)
           checksPass ==
             /\ num_prefix_search_ >= 1
             /\ \A kk \in 1..Len(combIds) : combIds[kk] < maxPostQty_
           queryStates == InitQueryStates(combIds, posting_lists_)
       IN /\ posting_lists_' = PostingListsAfterSearch(posting_lists_, combIds)
          /\ loans' = [cand |-> loans.cand + 1, tmpRes |-> loans.tmpRes,
                       combId |-> loans.combId + 1]
          /\ IF checksPass
             THEN /\ qpc' = [qpc EXCEPT ![t] = "outer"]
                  /\ qlocal' = [qlocal EXCEPT ![t] =
                       [post_qty |-> Cardinality(DOMAIN queryStates),
                        tmpRes |-> FALSE, proc_read |-> 0, post_read |-> 0,
                        query |-> q, thresh |-> thresh, combIds |-> combIds,
                        pos |-> queryStates, accum |-> 0, minDocId |-> Absent,
                        cands |-> <<>>]]
                  /\ search' = NoSearch
                  /\ UNCHANGED done
             ELSE /\ search' =
                       [status |-> "abort", query |-> q, alg |-> inv_proc_alg_,
                        thresh |-> thresh, cands |-> {}, candVector |-> <<>>,
                        checked |-> <<>>]
                  /\ done' = [done EXCEPT !.aborted = @ + 1]
                  /\ UNCHANGED <<qpc, qlocal>>
  /\ queryCall' = EmptyQueryParams
  /\ queryErr' = "none"
  /\ UNCHANGED <<state, data, progress, buildParams, queryParams,
                 tmp_posting_lists_, tmp_post_doc_qty_, loop, indexCall, indexErr,
                 stats>>

\* the test of the outer while (line 642). Heap not empty: minDocIdNeg =
\* top_key() (line 644). Heap empty: the loop is left, the candidates are
\* checked (lines 780-787) and the call goes on to the statistics.
QueueOuter(t) ==
  /\ qpc[t] = "outer"
  /\ LET l == qlocal[t]
     IN IF DOMAIN l.pos # {}
        THEN LET kk == TopOfQueue(l.pos, l.combIds, posting_lists_)
             IN /\ qlocal' = [qlocal EXCEPT ![t].minDocId =
                                 posting_lists_[l.combIds[kk]][l.pos[kk]]]
                /\ qpc' = [qpc EXCEPT ![t] = "inner"]
                /\ UNCHANGED search
        ELSE /\ search' = [status |-> "ok", query |-> l.query, alg |-> inv_proc_alg_,
                           thresh |-> l.thresh, cands |-> Range(l.cands),
                           candVector |-> l.cands,
                           checked |-> CheckAndAddToResultCalls(skip_checking_,
                                                                l.cands)]
             /\ qpc' = [qpc EXCEPT ![t] = "stat"]
             /\ UNCHANGED qlocal
  /\ UNCHANGED <<state, data, progress, buildParams, queryParams, lists, loop,
                 indexCall, indexErr, queryCall, queryErr, stats, loans, done>>

\* the test of the inner while (line 647). An entry for minDocId is on top: the
\* body of lines 648-672 (accum += skip_val_, post_pos_++, post_qty++,
\* replace_top_key or pop). Otherwise lines 676-680: the document is added when
\* accum >= thresh, accum = 0, back to the outer test.
QueueInner(t) ==
  /\ qpc[t] = "inner"
  /\ LET l == qlocal[t]
         more == /\ DOMAIN l.pos # {}
                 /\ LET kk == TopOfQueue(l.pos, l.combIds, posting_lists_)
                    IN posting_lists_[l.combIds[kk]][l.pos[kk]] = l.minDocId
     IN IF more
        THEN LET kk == TopOfQueue(l.pos, l.combIds, posting_lists_)
                 pl == posting_lists_[l.combIds[kk]]
             IN /\ qlocal' = [qlocal EXCEPT
                                 ![t].accum = @ + skip_val_,
                                 ![t].post_qty = @ + 1,
                                 ![t].pos = AdvanceCursor(l.pos, kk, pl)]
                /\ UNCHANGED qpc
        ELSE /\ qlocal' = [qlocal EXCEPT
                              ![t].cands = IF Enough(l.accum, l.thresh)
                                           THEN Append(@, l.minDocId) ELSE @,
                              ![t].accum = 0]
             /\ qpc' = [qpc EXCEPT ![t] = "outer"]
  /\ UNCHANGED <<state, data, progress, buildParams, queryParams, lists, loop,
                 calls, stats, loans, done>>

QueueStep(t) == QueueOuter(t) \/ QueueInner(t)

\* an index built by one indexing thread and searched with the priority queue
NextQueue ==
  \/ /\ state = "new"
     /\ \E p \in QueueIndexParamSet : CreateIndex(p)
  \/ BuildStep
  \/ /\ state = "built"
     /\ NoSearchRunning
     /\ \E p \in QueueQueryParamSet : SetQueryTimeParams(p)
  \/ \E t \in QueryThreads :
       \/ \E q \in QueryPos : QueueBegin(t, q)
       \/ QueueOuter(t)
       \/ QueueInner(t)
       \/ StatLock(t)
       \/ StatUpdate(t)

\* a thread inside GenSearch keeps executing
SpecQueue ==
  Init /\ [][NextQueue]_vars /\ \A t \in QueryThreads : WF_vars(QueueStep(t))

\* the postings the cursors in the heap have not passed yet
Remaining(t) ==
  LET l == qlocal[t]
      left[S \in SUBSET (DOMAIN l.pos)] ==
        IF S = {} THEN 0
        ELSE LET kk == CHOOSE x \in S : TRUE
             IN Len(posting_lists_[l.combIds[kk]]) - l.pos[kk] + 1 + left[S \ {kk}]
  IN left[DOMAIN l.pos]

\* the steps along the lists so far: post_qty counts one for every cursor
\* created and one for every advance
Advances(t) ==
  qlocal[t].post_qty
    - Cardinality(DOMAIN InitQueryStates(qlocal[t].combIds, posting_lists_))

QueueCursorsInsideLists ==
  \A t \in QueryThreads :
    InQueueLoop(t) =>
      LET l == qlocal[t]
      IN /\ \A kk \in DOMAIN l.pos :
              /\ kk \in 1..Len(l.combIds)
              /\ posting_lists_[l.combIds[kk]] # <<>>
              /\ l.pos[kk] \in 1..Len(posting_lists_[l.combIds[kk]])
         /\ Advances(t) + Remaining(t) = PostingsOf(l.combIds, posting_lists_)
         /\ qpc[t] = "outer" => l.accum = 0

QueueLoopLeftWhenEmpty ==
  \A t \in QueryThreads :
    (qpc[t] = "stat" /\ inv_proc_alg_ = kPriorQueue) =>
      /\ qlocal[t].pos = <<>>
      /\ Advances(t) = PostingsOf(qlocal[t].combIds, posting_lists_)
      /\ qlocal[t].accum = 0

QueueAdvancesOneCursor ==
  \A t \in QueryThreads :
    (qpc[t] = "inner" /\ qpc'[t] = "inner" /\ qlocal'[t] # qlocal[t]) =>
      LET l == qlocal[t]
          n == qlocal'[t]
      IN \E kk \in DOMAIN l.pos :
           /\ \A other \in DOMAIN l.pos \ {kk} :
                other \in DOMAIN n.pos /\ n.pos[other] = l.pos[other]
           /\ IF l.pos[kk] < Len(posting_lists_[l.combIds[kk]])
              THEN kk \in DOMAIN n.pos /\ n.pos[kk] = l.pos[kk] + 1
              ELSE DOMAIN n.pos = DOMAIN l.pos \ {kk}
           /\ n.post_qty = l.post_qty + 1
           /\ Remaining(t)' = Remaining(t) - 1

\* C26: the priority-queue loop terminates: a cursor exists only for a
\* non-empty posting list of a query key and points inside it, every inner step
\* moves exactly one cursor one posting on and removes it at the end of its
\* list, the accumulator is 0 whenever the outer loop takes the next id, and a
\* search in the loop leaves it with an empty heap after as many advances as
\* the posting lists of the query keys hold postings.
C26_QueueLoopTerminates ==
  /\ [](QueueCursorsInsideLists /\ QueueLoopLeftWhenEmpty)
  /\ [][QueueAdvancesOneCursor]_vars
  /\ \A t \in QueryThreads : InQueueLoop(t) ~> qpc[t] = "stat"

\* a search that has left the loop after advancing three cursors along lists
\* of two postings or more and adding two documents
C26_Witness ==
  \E t \in QueryThreads :
    /\ qpc[t] = "stat"
    /\ inv_proc_alg_ = kPriorQueue
    /\ Cardinality(DOMAIN InitQueryStates(qlocal[t].combIds, posting_lists_)) = 3
    /\ Advances(t) >= 6
    /\ Len(qlocal[t].cands) >= 2

\* the loop taken step by step gives what PriorQueueCandList and PostQty
\* compute for the whole loop
QueueStepsAgreeWithLoop ==
  \A t \in QueryThreads :
    (qpc[t] = "stat" /\ inv_proc_alg_ = kPriorQueue) =>
      LET l == qlocal[t]
      IN /\ l.cands = CandList(kPriorQueue, l.combIds, posting_lists_, skip_val_,
                               l.thresh, DataQty, <<>>)
         /\ l.post_qty = PostQty(kPriorQueue, l.combIds, posting_lists_)

====
